---- MODULE Spec2Model ----
(***************************************************************************)
(* Model of src/elan/command.rs: run_command_for_dir, its telemetry path   *)
(* (telemetry_lean) and its direct path                                    *)
(* (exec_command_for_dir_without_telemetry), for one invocation.           *)
(*                                                                         *)
(* Text is modelled as sequences of one-character strings, so that         *)
(* starts_with, read_line and the error-code regex are computed on the     *)
(* characters.  BAD stands for a byte that is not valid UTF-8.             *)
(***************************************************************************)
EXTENDS Integers, Sequences, FiniteSets

\* ------------------------------------------------------------------ bounds
\* number of writes the child makes to its standard error
MaxChunks == 2
\* number of caller-supplied arguments
MaxArgs == 1
\* the child's exit codes are 0..MaxExit
MaxExit == 1

\* ------------------------------------------------------------- Option<T>
None == [some |-> FALSE]
Some(x) == [some |-> TRUE, v |-> x]
unwrap_or(o, d) == IF o.some THEN o.v ELSE d

\* ------------------------------------------------------------ characters
NL == "\n"
BAD == "xFF"

Min(S) == CHOOSE m \in S : \A n \in S : m <= n

\* str::starts_with
starts_with(s, p) == Len(s) >= Len(p) /\ SubSeq(s, 1, Len(p)) = p

\* OsStr::to_str: None when the bytes are not valid UTF-8
to_str(a) == IF \E i \in 1..Len(a) : a[i] = BAD THEN None ELSE Some(a)

ColorPrefix == <<"-", "-", "c", "o", "l", "o", "r">>
ColorAlways == <<"a", "l", "w", "a", "y", "s">>

\* the caller-supplied arguments the model draws from
ArgPool ==
    { ColorPrefix,
      ColorPrefix \o <<"=", BAD>>,
      <<"-", "-", "c", "o", "l">> }

RECURSIVE SeqsUpTo(_, _)
SeqsUpTo(S, n) ==
    IF n = 0 THEN {<<>>}
    ELSE LET R == SeqsUpTo(S, n - 1)
         IN  R \cup {Append(r, x) : r \in {q \in R : Len(q) = n - 1}, x \in S}

\* the arguments the caller may have set on the Command already
PresetPool == {<<>>, << <<"p">> >>}

Arg0Pool == {"lean", "lean.exe", "leanpkg"}

\* what the child can write to its standard error in one write
ChunkPool ==
    { <<"[", "E", "1", "1", "0", "1", "]">>,
      <<"[", "X", "1", "2", "3", "4", "]", "[", "E", "1", "2", "]">>,
      <<"[", "E", "1", "1", "0", "1", "]", NL>>,
      <<BAD>> }

ExitCodes == 0..MaxExit
\* ExitStatus::code(): None when the child was ended by a signal
ChildStatuses == {Some(c) : c \in ExitCodes} \cup {None}
\* io::Error::raw_os_error() of a failed wait (ECHILD = 10), or none
RawOsErrors == {Some(10), None}

\* -------------------------------------------------------- the error regex
\* Regex r"\[(?P<error>E.{4})\]" matching at position i of a line
\* ('.' is any character but a newline)
re_match_at(b, i) ==
    /\ i + 6 <= Len(b)
    /\ b[i] = "["
    /\ b[i + 1] = "E"
    /\ \A j \in 2..5 : b[i + j] # NL
    /\ b[i + 6] = "]"

\* Regex::captures: the leftmost match only; the named group "error"
re_captures(b) ==
    LET I == {i \in 1..Len(b) : re_match_at(b, i)}
    IN  IF I = {} THEN None ELSE Some(SubSeq(b, Min(I) + 1, Min(I) + 5))

\* BufRead::read_line from offset pos: the bytes up to and including the
\* next newline, or up to the end of the file
read_line(file, pos) ==
    LET N == {i \in (pos + 1)..Len(file) : file[i] = NL}
        end == IF N = {} THEN Len(file) ELSE Min(N)
    IN  SubSeq(file, pos + 1, end)

\* read_line fails (InvalidData) when the line is not valid UTF-8
valid_utf8(b) == \A i \in 1..Len(b) : b[i] # BAD

\* Write::write on the locked standard error: the number of bytes accepted
\* (0 stands for a failed write; the result is discarded by the caller)
write_outcomes(n) == {k \in {0, 1, n - 1, n} : 0 <= k /\ k <= n}

\* TelemetryEvent::LeanRun
LeanRun(ms_, code, errs) ==
    [duration_ms |-> ms_, exit_code |-> code, errors |-> errs]

\* how the invocation ended, as its caller or the operating system sees it
Running == [kind |-> "running", code |-> 0, name |-> ""]
Exited(c) == [kind |-> "exit", code |-> c, name |-> ""]
Panicked == [kind |-> "panic", code |-> 0, name |-> ""]
Replaced == [kind |-> "replaced", code |-> 0, name |-> ""]
Signalled == [kind |-> "signal", code |-> 0, name |-> ""]
\* Err(..).chain_err(|| ErrorKind::RunningCommand { name })
RunningCommand(n) == [kind |-> "RunningCommand", code |-> 0, name |-> n]
\* the error of cfg.telemetry_enabled()?, returned as it is
CfgError == [kind |-> "CfgError", code |-> 0, name |-> ""]

VARIABLES
    platform,     \* "unix" or "windows": the #[cfg] the build selected
    arg0,         \* the executable name
    args,         \* the caller-supplied arguments
    cfgTelemetry, \* what cfg.telemetry_enabled() answers: "true", "false", "err"
    isatty,       \* what the terminal probe answers
    preset,       \* the arguments already set on the Command passed in
    pc,           \* position of the parent in the code
    queried,      \* cfg.telemetry_enabled() was called
    path,         \* "none", "telemetry" or "direct"
    cmdArgs,      \* the arguments set on the Command
    clock,        \* Instant: one tick per step
    now,          \* Instant::now() of line 46
    ms,           \* the measured duration
    tmpfile,      \* the capture file: "none" or "open"
    capture,      \* contents of the capture file
    filePos,      \* offset of the capture file's open file description
    child,        \* "none", "failed" (could not start), "running", "terminated"
    childStderr,  \* where the child's standard error goes: "capture", "inherit"
    childStatus,  \* the child's ExitStatus::code()
    nwrites,      \* writes the child has made
    status,       \* result of cmd.wait(): [ok, code] / [ok, os]
    errors,       \* the accumulator Vec<String>
    stderrOut,    \* bytes written to the parent's real standard error
    events,       \* events handed to Telemetry::log_telemetry
    appendOk,     \* result of each log_telemetry call
    notified,     \* calls of cfg.notify_handler (TelemetryCleanupError)
    outcome,      \* how the invocation ended
    closes,       \* close() calls the parent made on the capture descriptor
    offered,      \* bytes the parent passed to handle.write
    probed        \* stderr_isatty() was called

vars == << platform, arg0, args, cfgTelemetry, isatty, preset, pc, queried, path,
           cmdArgs, clock, now, ms, tmpfile, capture, filePos, child,
           childStderr, childStatus, nwrites, status, errors, stderrOut,
           events, appendOk, notified, outcome, closes, offered, probed >>

inputs == << platform, arg0, args, cfgTelemetry, isatty, preset >>

Init ==
    /\ platform \in {"unix", "windows"}
    /\ arg0 \in Arg0Pool
    /\ args \in SeqsUpTo(ArgPool, MaxArgs)
    /\ cfgTelemetry \in {"true", "false", "err"}
    /\ isatty \in BOOLEAN
    /\ preset \in PresetPool
    /\ pc = "start"
    /\ queried = FALSE
    /\ path = "none"
    /\ cmdArgs = preset
    /\ clock = 0
    /\ now = 0
    /\ ms = 0
    /\ tmpfile = "none"
    /\ capture = <<>>
    /\ filePos = 0
    /\ child = "none"
    /\ childStderr = "inherit"
    /\ childStatus = None
    /\ nwrites = 0
    /\ status = [ok |-> FALSE, code |-> None]
    /\ errors = <<>>
    /\ stderrOut = <<>>
    /\ events = <<>>
    /\ appendOk = <<>>
    /\ notified = 0
    /\ outcome = Running
    /\ closes = 0
    /\ offered = <<>>
    /\ probed = FALSE

\* ------------------------------------------------- run_command_for_dir
is_lean(a0) == a0 = "lean" \/ a0 = "lean.exe"

\* line 21 as it would be without the telemetry_enabled() conjunct
dispatch_name_only(a0, enabled) ==
    IF is_lean(a0)
    THEN [queried |-> FALSE, next |-> "telemetry"]
    ELSE [queried |-> FALSE, next |-> "direct"]

\* line 21 as it would be with telemetry_enabled().unwrap_or(false)
dispatch_err_as_disabled(a0, enabled) ==
    IF is_lean(a0)
    THEN [queried |-> TRUE,
          next |-> IF enabled = "true" THEN "telemetry" ELSE "direct"]
    ELSE [queried |-> FALSE, next |-> "direct"]

\* line 21 as it would be with telemetry_enabled()? evaluated first
dispatch_query_first(a0, enabled) ==
    [queried |-> TRUE,
     next |-> CASE enabled = "err" -> "err"
                [] enabled = "true" /\ is_lean(a0) -> "telemetry"
                [] OTHER -> "direct"]

\* the condition of line 21, with && evaluated left to right and ? leaving
\* the function: whether the configuration was queried, and what follows
dispatch(a0, enabled) ==
    IF is_lean(a0)
    THEN [queried |-> TRUE,
          next |-> CASE enabled = "err" -> "err"
                     [] enabled = "true" -> "telemetry"
                     [] OTHER -> "direct"]
    ELSE [queried |-> FALSE, next |-> "direct"]

run_command_for_dir ==
    /\ pc = "start"
    /\ LET d == dispatch(arg0, cfgTelemetry)
       IN  /\ queried' = d.queried
           /\ CASE d.next = "err" ->
                     /\ pc' = "done"
                     /\ outcome' = CfgError
                     /\ path' = path
                [] d.next = "telemetry" ->
                     /\ pc' = "t_setup"
                     /\ path' = "telemetry"
                     /\ outcome' = outcome
                [] OTHER ->
                     /\ pc' = "d_exec"
                     /\ path' = "direct"
                     /\ outcome' = outcome
    /\ clock' = clock + 1
    /\ UNCHANGED << inputs, closes, offered, probed,
                    cmdArgs, now, ms, tmpfile, capture, filePos,
                    child, childStderr, childStatus, nwrites, status, errors,
                    stderrOut, events, appendOk, notified >>

\* ------------------------------------------------------- telemetry_lean
\* lines 50-53: e.as_ref().to_str().unwrap_or("") starts with "--color"
has_color_args(as) ==
    \E i \in 1..Len(as) : starts_with(unwrap_or(to_str(as[i]), <<>>), ColorPrefix)

\* stderr_isatty(): the answer of the platform's terminal query
stderr_isatty == isatty

\* lines 34-38 and 61: Stdio::from_raw_fd(file.as_raw_fd()) makes a second
\* owner of the descriptor of cmd_err_file, without duplicating it
file_as_stdio(owners) == owners + 1

\* leaving telemetry_lean by return or by an unwinding panic drops the File
\* (cmd_err_file, or the BufReader holding it) and the Command holding the
\* Stdio: each owner closes the descriptor
drop_closes == file_as_stdio(1)

\* lines 48-58 as they would be with the colour arguments set first
telemetry_args_color_first(cur, as, tty) ==
    cur \o (IF tty /\ ~has_color_args(as)
            THEN <<ColorPrefix, ColorAlways>> ELSE <<>>) \o as

\* lines 48-58: cmd.args(args), then "--color" "always" on a terminal
\* when no argument is a colour argument
telemetry_args(cur, as, tty) ==
    cur \o as \o (IF tty /\ ~has_color_args(as)
                  THEN <<ColorPrefix, ColorAlways>> ELSE <<>>)

\* lines 46-58: start the clock, set the arguments, force colour
telemetry_setup ==
    /\ pc = "t_setup"
    /\ now' = clock
    /\ cmdArgs' = telemetry_args(cmdArgs, args, stderr_isatty)
    /\ probed' = TRUE
    /\ pc' = "t_tempfile"
    /\ clock' = clock + 1
    /\ UNCHANGED << inputs, closes, offered,
                    queried, path, ms, tmpfile, capture, filePos,
                    child, childStderr, childStatus, nwrites, status, errors,
                    stderrOut, events, appendOk, notified, outcome >>

\* lines 60-61: tempfile().unwrap() and file_as_stdio
telemetry_tempfile ==
    /\ pc = "t_tempfile"
    /\ \E ok \in BOOLEAN :
         IF ok
         THEN /\ tmpfile' = "open"
              /\ pc' = "t_spawn"
              /\ outcome' = outcome
         ELSE /\ tmpfile' = tmpfile
              /\ pc' = "done"
              /\ outcome' = Panicked
    /\ clock' = clock + 1
    /\ UNCHANGED << inputs, closes, offered, probed,
                    queried, path, cmdArgs, now, ms, capture, filePos,
                    child, childStderr, childStatus, nwrites, status, errors,
                    stderrOut, events, appendOk, notified >>

\* lines 65-70: stdin and stdout inherited, stderr to the capture file,
\* spawn().unwrap()
telemetry_spawn ==
    /\ pc = "t_spawn"
    /\ \E ok \in BOOLEAN :
         IF ok
         THEN /\ child' = "running"
              /\ childStderr' = "capture"
              /\ pc' = "t_wait"
              /\ outcome' = outcome
              /\ closes' = closes
         ELSE /\ child' = "failed"
              /\ childStderr' = childStderr
              /\ pc' = "done"
              /\ outcome' = Panicked
              /\ closes' = closes + drop_closes
    /\ clock' = clock + 1
    /\ UNCHANGED << inputs, offered, probed,
                    queried, path, cmdArgs, now, ms, tmpfile, capture,
                    filePos, childStatus, nwrites, status, errors, stderrOut,
                    events, appendOk, notified >>

\* lines 72-78, cmd.wait() gives Ok(status): the child has terminated
telemetry_wait_ok ==
    /\ pc = "t_wait"
    /\ child = "terminated"
    /\ status' = [ok |-> TRUE, code |-> childStatus]
    /\ ms' = clock - now
    /\ pc' = "t_rewind"
    /\ clock' = clock + 1
    /\ UNCHANGED << inputs, closes, offered, probed,
                    queried, path, cmdArgs, now, tmpfile, capture,
                    filePos, child, childStderr, childStatus, nwrites, errors,
                    stderrOut, events, appendOk, notified, outcome >>

\* lines 72-78, cmd.wait() gives Err(e)
telemetry_wait_err ==
    /\ pc = "t_wait"
    /\ \E os \in RawOsErrors : status' = [ok |-> FALSE, code |-> os]
    /\ ms' = clock - now
    /\ pc' = "t_log_err"
    /\ clock' = clock + 1
    /\ UNCHANGED << inputs, closes, offered, probed,
                    queried, path, cmdArgs, now, tmpfile, capture,
                    filePos, child, childStderr, childStatus, nwrites, errors,
                    stderrOut, events, appendOk, notified, outcome >>

\* line 94 as it would be without the seek
seek_nowhere(pos) == pos

\* line 94: seek(SeekFrom::Start(0)), the new offset
seek_start(pos) == 0

\* lines 82-96: the regex, the accumulator, the lock on standard error and
\* cmd_err_file.seek(SeekFrom::Start(0))
telemetry_rewind ==
    /\ pc = "t_rewind"
    /\ errors' = <<>>
    /\ filePos' = seek_start(filePos)
    /\ pc' = "t_read"
    /\ clock' = clock + 1
    /\ UNCHANGED << inputs, closes, offered, probed,
                    queried, path, cmdArgs, now, ms, tmpfile, capture,
                    child, childStderr, childStatus, nwrites, status,
                    stderrOut, events, appendOk, notified, outcome >>

\* lines 103-112: push the capture of the line, if it has one
scan_line(errs, b) ==
    IF re_captures(b).some THEN Append(errs, re_captures(b).v) ELSE errs

\* lines 98-113: one turn of the while loop
telemetry_read_line ==
    /\ pc = "t_read"
    /\ LET b == read_line(capture, filePos)
       IN  IF Len(b) = 0
           THEN /\ pc' = "t_log"
                /\ UNCHANGED << filePos, stderrOut, errors, outcome, closes,
                                offered >>
           ELSE IF ~valid_utf8(b)
           THEN /\ pc' = "done"
                /\ outcome' = Panicked
                /\ closes' = closes + drop_closes
                /\ UNCHANGED << filePos, stderrOut, errors, offered >>
           ELSE /\ pc' = pc
                /\ filePos' = filePos + Len(b)
                /\ \E k \in write_outcomes(Len(b)) :
                     stderrOut' = stderrOut \o SubSeq(b, 1, k)
                /\ offered' = offered \o b
                /\ errors' = scan_line(errors, b)
                /\ closes' = closes
                /\ outcome' = outcome
    /\ clock' = clock + 1
    /\ UNCHANGED << inputs, probed,
                    queried, path, cmdArgs, now, ms, tmpfile, capture,
                    child, childStderr, childStatus, nwrites, status, events,
                    appendOk, notified >>

\* line 82 as it would be with unwrap_or(0)
exit_code_or_zero(st) == unwrap_or(st.code, 0)

\* line 82: status.code().unwrap_or(1)
exit_code_of(st) == unwrap_or(st.code, 1)

\* lines 115-119 as they would be without the is_empty() test
errors_field_always_some(errs) == Some(errs)

\* lines 115-119
errors_field(errs) == IF errs = <<>> THEN None ELSE Some(errs)

\* lines 127-129 as they would be with the handler called on every result
notify_always(ok, n) == n + 1

\* lines 127-129 and 141-143: the handler is called from map_err only
notify_on(ok, n) == IF ok THEN n ELSE n + 1

\* lines 115-129: build the event, hand it to the log store, notify a failure
telemetry_log ==
    /\ pc = "t_log"
    /\ events' = Append(events,
                        LeanRun(ms, exit_code_of(status), errors_field(errors)))
    /\ \E ok \in BOOLEAN :
         /\ appendOk' = Append(appendOk, ok)
         /\ notified' = notify_on(ok, notified)
    /\ pc' = "t_exit"
    /\ clock' = clock + 1
    /\ UNCHANGED << inputs, closes, offered, probed,
                    queried, path, cmdArgs, now, ms, tmpfile, capture,
                    filePos, child, childStderr, childStatus, nwrites, status,
                    errors, stderrOut, outcome >>

\* line 131: process::exit(exit_code)
telemetry_exit ==
    /\ pc = "t_exit"
    /\ outcome' = Exited(exit_code_of(status))
    /\ pc' = "done"
    /\ clock' = clock + 1
    /\ UNCHANGED << inputs, closes, offered, probed,
                    queried, path, cmdArgs, now, ms, tmpfile, capture,
                    filePos, child, childStderr, childStatus, nwrites, status,
                    errors, stderrOut, events, appendOk, notified >>

\* line 134 as it would be with the generic code only
wait_error_code_generic(st) == unwrap_or(None, 1)

\* line 134: e.raw_os_error().unwrap_or(1)
wait_error_code(st) == unwrap_or(st.code, 1)

\* lines 133-148: the event of a failed wait, then the wrapped error
telemetry_log_err ==
    /\ pc = "t_log_err"
    /\ events' = Append(events, LeanRun(ms, wait_error_code(status), None))
    /\ \E ok \in BOOLEAN :
         /\ appendOk' = Append(appendOk, ok)
         /\ notified' = notify_on(ok, notified)
    /\ outcome' = RunningCommand(arg0)
    /\ closes' = closes + drop_closes
    /\ pc' = "done"
    /\ clock' = clock + 1
    /\ UNCHANGED << inputs, offered, probed,
                    queried, path, cmdArgs, now, ms, tmpfile, capture,
                    filePos, child, childStderr, childStatus, nwrites, status,
                    errors, stderrOut >>

\* ------------------------------- exec_command_for_dir_without_telemetry
\* line 157 as it would be with the colour arguments of the telemetry path
direct_args_color(cur, as) == cur \o as \o <<ColorPrefix, ColorAlways>>

\* line 157: cmd.args(args)
direct_args(cur, as) == cur \o as

\* line 176 as it would be with unwrap_or(0)
exec_windows_exit_or_zero(st) == Exited(unwrap_or(st, 0))

\* line 176: process::exit(status.code().unwrap())
exec_windows_exit(st) == IF st.some THEN Exited(st.v) ELSE Panicked

\* lines 157-170 under cfg(unix): Err(cmd.exec()) returns only on failure
direct_exec_unix ==
    /\ pc = "d_exec"
    /\ platform = "unix"
    /\ cmdArgs' = direct_args(cmdArgs, args)
    /\ \E ok \in BOOLEAN :
         IF ok
         THEN /\ child' = "running"
              /\ outcome' = Replaced
         ELSE /\ child' = "failed"
              /\ outcome' = RunningCommand(arg0)
    /\ pc' = "done"
    /\ clock' = clock + 1
    /\ UNCHANGED << inputs, closes, offered, probed,
                    queried, path, now, ms, tmpfile, capture, filePos,
                    childStderr, childStatus, nwrites, status, errors,
                    stderrOut, events, appendOk, notified >>

\* lines 157-175 under cfg(windows): cmd.status()? spawns the child
direct_status_windows ==
    /\ pc = "d_exec"
    /\ platform = "windows"
    /\ cmdArgs' = direct_args(cmdArgs, args)
    /\ \E ok \in BOOLEAN :
         IF ok
         THEN /\ child' = "running"
              /\ pc' = "d_wait"
              /\ outcome' = outcome
         ELSE /\ child' = "failed"
              /\ pc' = "done"
              /\ outcome' = RunningCommand(arg0)
    /\ clock' = clock + 1
    /\ UNCHANGED << inputs, closes, offered, probed,
                    queried, path, now, ms, tmpfile, capture, filePos,
                    childStderr, childStatus, nwrites, status, errors,
                    stderrOut, events, appendOk, notified >>

\* lines 175-176 under cfg(windows): the wait inside cmd.status()?, then
\* process::exit(status.code().unwrap())
direct_exit_windows ==
    /\ pc = "d_wait"
    /\ \/ /\ child = "terminated"
          /\ status' = [ok |-> TRUE, code |-> childStatus]
          /\ outcome' = exec_windows_exit(childStatus)
       \/ /\ \E os \in RawOsErrors : status' = [ok |-> FALSE, code |-> os]
          /\ outcome' = RunningCommand(arg0)
    /\ pc' = "done"
    /\ clock' = clock + 1
    /\ UNCHANGED << inputs, closes, offered, probed,
                    queried, path, cmdArgs, now, ms, tmpfile, capture,
                    filePos, child, childStderr, childStatus, nwrites, errors,
                    stderrOut, events, appendOk, notified >>

\* ------------------------------------------------------------ the child
\* the child writes to its standard error: the capture file (at the offset
\* of the shared open file description) or the parent's own standard error
child_write ==
    /\ child = "running"
    /\ nwrites < MaxChunks
    /\ \E c \in ChunkPool :
         IF childStderr = "capture"
         THEN /\ capture' = SubSeq(capture, 1, filePos) \o c
              /\ filePos' = filePos + Len(c)
              /\ stderrOut' = stderrOut
         ELSE /\ stderrOut' = stderrOut \o c
              /\ UNCHANGED << capture, filePos >>
    /\ nwrites' = nwrites + 1
    /\ clock' = clock + 1
    /\ UNCHANGED << inputs, closes, offered, probed,
                    pc, queried, path, cmdArgs, now, ms, tmpfile,
                    child, childStderr, childStatus, status, errors, events,
                    appendOk, notified, outcome >>

\* the child terminates; after a process replacement its end is the end of
\* the process
child_exit ==
    /\ child = "running"
    /\ child' = "terminated"
    /\ \E s \in ChildStatuses :
         /\ childStatus' = s
         /\ outcome' = IF outcome = Replaced
                       THEN (IF s.some THEN Exited(s.v) ELSE Signalled)
                       ELSE outcome
    /\ clock' = clock + 1
    /\ UNCHANGED << inputs, closes, offered, probed,
                    pc, queried, path, cmdArgs, now, ms, tmpfile,
                    capture, filePos, childStderr, nwrites, status, errors,
                    stderrOut, events, appendOk, notified >>

Next ==
    \/ run_command_for_dir
    \/ telemetry_setup
    \/ telemetry_tempfile
    \/ telemetry_spawn
    \/ telemetry_wait_ok
    \/ telemetry_wait_err
    \/ telemetry_rewind
    \/ telemetry_read_line
    \/ telemetry_log
    \/ telemetry_exit
    \/ telemetry_log_err
    \/ direct_exec_unix
    \/ direct_status_windows
    \/ direct_exit_windows
    \/ child_write
    \/ child_exit

Spec == Init /\ [][Next]_vars

TypeOK ==
    /\ pc \in {"start", "t_setup", "t_tempfile", "t_spawn", "t_wait",
               "t_rewind", "t_read", "t_log", "t_exit", "t_log_err",
               "d_exec", "d_wait", "done"}
    /\ child \in {"none", "failed", "running", "terminated"}
    /\ Len(events) = Len(appendOk)

\* ================================================================ claims

\* every occurrence of the token shape in a stream, in order of occurrence
RECURSIVE tokens_from(_, _)
tokens_from(s, i) ==
    IF i > Len(s) THEN <<>>
    ELSE (IF re_match_at(s, i) THEN <<SubSeq(s, i + 1, i + 5)>> ELSE <<>>)
         \o tokens_from(s, i + 1)

\* the token shape occurs somewhere in a stream
has_token(s) == \E i \in 1..Len(s) : re_match_at(s, i)

\* the parent obtained the child's status and the child ended with a code
WaitedWithCode == status.ok /\ status.code.some

\* C1: once the child has been started and has terminated normally with
\* exit code c, the parent ends by exiting with code c: after a completed
\* wait (telemetry path, spawn-and-wait direct path) and after a process
\* replacement; it does not return, panic or exit with another code.
C1_ExitCodeIsChildCode ==
    /\ (pc = "done" /\ WaitedWithCode) => outcome = Exited(status.code.v)
    /\ (pc = "done" /\ path = "direct" /\ platform = "unix"
        /\ child = "terminated" /\ childStatus.some)
       => outcome = Exited(childStatus.v)

\* C2: the error list of the event of a completed child is the sequence of
\* all tokens [E....] of the captured stream, in order, duplicates kept,
\* several per line included.
C2_ErrorsAreAllTokens ==
    (path = "telemetry" /\ status.ok /\ events # <<>>)
    => unwrap_or(events[1].errors, <<>>) = tokens_from(capture, 1)

\* C3: when the telemetry path ends with the parent's exit, the bytes
\* written to the parent's standard error are exactly the captured stream.
C3_EveryByteRelayed ==
    (path = "telemetry" /\ outcome.kind = "exit") => stderrOut = capture

\* C4: when the executable cannot be started, on either path, the caller
\* gets the RunningCommand error naming arg0 and the process goes on.
C4_SpawnFailureReturned ==
    child = "failed" => outcome = RunningCommand(arg0)

\* the number of failed appends among the log_telemetry calls made
RECURSIVE failures(_)
failures(oks) ==
    IF oks = <<>> THEN 0
    ELSE (IF Head(oks) THEN 0 ELSE 1) + failures(Tail(oks))

\* C5: on the telemetry path the result of the append does not show in
\* the outcome: after the append the invocation ends with the exit code of
\* the completed child, or with the RunningCommand error of the failed
\* wait, never with the append's error; and the notification handler has
\* been called once per failed append and not at all for a successful one.
C5_AppendFailureIsolated ==
    /\ notified = failures(appendOk)
    /\ (path = "telemetry" /\ pc = "done" /\ events # <<>>)
       => outcome = IF status.ok
                    THEN Exited(unwrap_or(status.code, 1))
                    ELSE RunningCommand(arg0)

C5_Witness ==
    /\ pc = "done"
    /\ appendOk = <<FALSE>>
    /\ notified = 1
    /\ outcome.kind = "exit"

\* C6: on the telemetry path the arguments of the child are the caller's
\* arguments, followed by "--color" "always" exactly when the probe
\* reports a terminal and no caller argument begins with "--color".
C6_ColorIffTtyAndNoColorArg ==
    (path = "telemetry" /\ pc \notin {"start", "t_setup"})
    => cmdArgs = preset \o args \o
                 (IF isatty /\ ~\E i \in 1..Len(args) : starts_with(args[i], ColorPrefix)
                  THEN <<ColorPrefix, ColorAlways>> ELSE <<>>)

TelemetrySteps ==
    {"t_setup", "t_tempfile", "t_spawn", "t_wait", "t_rewind", "t_read",
     "t_log", "t_exit", "t_log_err"}
DirectSteps == {"d_exec", "d_wait"}

\* C7: once the dispatcher has decided, the telemetry path is the one
\* taken exactly when arg0 is "lean" or "lean.exe" and the configuration
\* reports telemetry enabled; the direct path is the one taken exactly in
\* the other cases in which the dispatcher returned no error; the steps and
\* effects of a path occur only when it is the one taken.
C7_PathChoice ==
    /\ pc # "start"
       => /\ path = "telemetry"
             <=> ((arg0 = "lean" \/ arg0 = "lean.exe") /\ cfgTelemetry = "true")
          /\ path = "direct"
             <=> (~((arg0 = "lean" \/ arg0 = "lean.exe") /\ cfgTelemetry = "true")
                  /\ outcome # CfgError)
    /\ (pc \in TelemetrySteps \/ tmpfile = "open" \/ events # <<>>
        \/ childStderr = "capture")
       => path = "telemetry"
    /\ (pc \in DirectSteps \/ outcome.kind \in {"replaced", "signal"}
        \/ (child \in {"running", "terminated"} /\ childStderr = "inherit"))
       => path = "direct"

C7_Witness ==
    /\ path = "direct"
    /\ arg0 = "lean.exe"
    /\ cfgTelemetry = "false"
    /\ child = "running"

\* C8 as claimed: whenever an event is handed to the log store, its errors
\* field is None exactly when the captured stream holds no token, and is
\* never Some of an empty list, after a completed child and after a failed
\* wait alike.
C8_Original ==
    [][Len(events') > Len(events)
       => LET e == events'[Len(events')].errors
          IN  /\ e # Some(<<>>)
              /\ e = None <=> ~has_token(capture')]_vars

\* C8 amended: the errors field of an event is never Some of an empty
\* list; in the event of a completed child it is None exactly when the
\* captured stream holds no token; in the event of a failed wait it is
\* always None, whatever the captured stream holds.
C8_ErrorsNoneIffNoToken ==
    \A i \in 1..Len(events) :
        /\ events[i].errors # Some(<<>>)
        /\ status.ok => (events[i].errors = None <=> ~has_token(capture))
        /\ ~status.ok => events[i].errors = None

C8_Witness ==
    /\ events # <<>>
    /\ status.ok
    /\ events[1].errors.some
    /\ has_token(capture)

\* C9: a telemetry-path invocation that has created its capture file and
\* has ended has handed exactly one event to the log store.
C9_ExactlyOneEvent ==
    (path = "telemetry" /\ tmpfile = "open" /\ pc = "done") => Len(events) = 1

\* C10: when the configuration was queried and the query failed, the
\* invocation has ended with that error returned, and neither path was
\* entered: no child, no process replacement, no capture file, no event.
C10_QueryFailurePropagated ==
    (queried /\ cfgTelemetry = "err")
    => /\ pc = "done"
       /\ outcome = CfgError
       /\ path = "none"
       /\ child = "none"
       /\ tmpfile = "none"
       /\ events = <<>>
       /\ cmdArgs = preset

C10_Witness ==
    /\ queried
    /\ cfgTelemetry = "err"
    /\ outcome = CfgError
    /\ arg0 = "lean"

\* C11: on the telemetry path the capture file is open before the child
\* is spawned; the parent never closes its descriptor twice; and when the
\* invocation has ended otherwise than by process::exit (where the process
\* ends with the descriptor open and no destructor runs), the descriptor
\* has been closed exactly once.
C11_CaptureReleasedOnce ==
    /\ (path = "telemetry" /\ child # "none") => tmpfile = "open"
    /\ closes <= 1
    /\ (pc = "done" /\ tmpfile = "open" /\ outcome.kind # "exit") => closes = 1

\* the child terminated and its status, obtained by the parent, has no code
WaitedNoCode == status.ok /\ ~status.code.some

RECURSIVE scan_from(_, _)
scan_from(file, pos) ==
    IF pos >= Len(file) THEN <<>>
    ELSE LET b == read_line(file, pos)
         IN  (IF re_captures(b).some THEN <<re_captures(b).v>> ELSE <<>>)
             \o scan_from(file, pos + Len(b))

\* C13: on the telemetry path the capture file exists once a spawn has
\* been tried; the parent passes nothing to its standard error before the
\* child has terminated; what it passes is the captured stream read from
\* its start; when the event of a completed child has been appended the
\* whole stream has been passed on, and right after the append the event
\* holds the scan of every line; and when the parent exits the event has
\* been appended and each failed append notified.
C13_TelemetryStepOrder ==
    path = "telemetry"
    => /\ child # "none" => tmpfile = "open"
       /\ (offered # <<>> \/ stderrOut # <<>>) => child = "terminated"
       /\ offered = SubSeq(capture, 1, Len(offered))
       /\ (status.ok /\ events # <<>>) => offered = capture
       /\ pc = "t_exit"
          => unwrap_or(events[1].errors, <<>>) = scan_from(capture, 0)
       /\ outcome.kind = "exit"
          => /\ Len(events) = 1
             /\ notified = failures(appendOk)

C13_Witness ==
    /\ path = "telemetry"
    /\ pc = "t_exit"
    /\ Len(scan_from(capture, 0)) = 2
    /\ appendOk = <<FALSE>>

\* the telemetry path's cmd.wait() gave an error
WaitFailed ==
    /\ path = "telemetry"
    /\ child \in {"running", "terminated"}
    /\ ~status.ok
    /\ pc \in {"t_log_err", "done"}

\* C14: after a failed wait on the telemetry path nothing is relayed to
\* standard error and the process is neither exited nor aborted; until
\* the event is appended the function has not returned; when it has
\* returned, the result is the RunningCommand error naming arg0 and
\* exactly one event was appended, with exit_code the raw OS error code of
\* the failure if there is one and 1 otherwise, and errors None.
C14_WaitFailureEvent ==
    WaitFailed
    => /\ offered = <<>>
       /\ stderrOut = <<>>
       /\ outcome.kind \notin {"exit", "panic"}
       /\ pc = "t_log_err" => (events = <<>> /\ outcome = Running)
       /\ pc = "done"
          => /\ outcome = RunningCommand(arg0)
             /\ Len(events) = 1
             /\ events[1].errors = None
             /\ events[1].exit_code
                = (IF status.code.some THEN status.code.v ELSE 1)

C14_Witness ==
    /\ WaitFailed
    /\ pc = "done"
    /\ status.code = Some(10)
    /\ capture # <<>>

\* C15: on the direct path there is no capture file, the child's standard
\* error is the parent's, the child's arguments are the caller's with no
\* color argument added, the terminal is not probed, the parent passes
\* nothing to its standard error, and no event is recorded or notified.
C15_DirectPathFrame ==
    path = "direct"
    => /\ tmpfile = "none"
       /\ capture = <<>>
       /\ closes = 0
       /\ childStderr = "inherit"
       /\ ~probed
       /\ offered = <<>>
       /\ events = <<>>
       /\ appendOk = <<>>
       /\ notified = 0
       /\ pc \notin {"start", "d_exec"} => cmdArgs = preset \o args

C15_Witness ==
    /\ path = "direct"
    /\ arg0 = "lean"
    /\ isatty
    /\ args = << <<"-", "-", "c", "o", "l">> >>
    /\ child = "terminated"
    /\ stderrOut # <<>>

\* the direct path has ended and, in the spawn-and-wait build, the wait
\* for a terminated child did not fail
DirectEnded ==
    /\ path = "direct"
    /\ pc = "done"
    /\ child \in {"failed", "terminated"}
    /\ (platform = "windows" /\ child = "terminated") => status.ok

\* C16 as claimed: in both builds the final result of the direct path is
\* the same function of the child's outcome: the RunningCommand error when
\* it cannot start, exit with c when it exits with c, and the fatal failure
\* of the spawn-and-wait build when it ends with no code.
C16_Original ==
    DirectEnded
    => outcome = IF child = "failed" THEN RunningCommand(arg0)
                 ELSE IF childStatus.some THEN Exited(childStatus.v)
                 ELSE Panicked

\* C16 amended: both builds give the RunningCommand error naming arg0 when
\* the child cannot start and the exit code c when it exits with c; when
\* it ends with no retrievable code the results differ: the replaced
\* process ends by the signal, the spawn-and-wait build panics.
C16_DirectBuildsAgree ==
    DirectEnded
    => outcome = IF child = "failed" THEN RunningCommand(arg0)
                 ELSE IF childStatus.some THEN Exited(childStatus.v)
                 ELSE IF platform = "unix" THEN Signalled
                 ELSE Panicked

C16_Witness ==
    /\ DirectEnded
    /\ platform = "windows"
    /\ outcome = Exited(1)

\* C17: on the telemetry path the clock is started immediately before the
\* spawn, with no step between its start and the spawn; it is stopped by
\* the step that obtains the child's status; and the duration of every
\* event is the one measured then.
C17_TimingWindow ==
    path = "telemetry"
    => /\ pc = "t_spawn" => now = clock
       /\ pc \in {"t_rewind", "t_log_err"} => ms = clock - 1 - now
       /\ \A i \in 1..Len(events) : events[i].duration_ms = ms

\* C18: when arg0 is neither "lean" nor "lean.exe" the configuration is
\* not queried and the direct path is taken, whatever the query would
\* have answered, a failure included.
C18_OtherToolsSkipQuery ==
    (pc # "start" /\ ~(arg0 = "lean" \/ arg0 = "lean.exe"))
    => /\ ~queried
       /\ path = "direct"
       /\ outcome # CfgError

C18_Witness ==
    /\ arg0 = "leanpkg"
    /\ cfgTelemetry = "err"
    /\ path = "direct"
    /\ child = "running"

\* s without the elements of its prefix p
drop_prefix(s, p) == SubSeq(s, Len(p) + 1, Len(s))

====
